---- MODULE Spec2Model ----
(***************************************************************************)
(* Posture classification (logic/posture_logic.py), the pose detector      *)
(* boundary (pose/pose_detector.py) and the frame loop (main.py).          *)
(*                                                                         *)
(* Numbers.  A coordinate is a rational x/den kept as an integer numerator *)
(* with a positive denominator: pixels are den = 1, a midpoint of two      *)
(* pixels is den = 2, and den = TinyDen gives vectors shorter than the     *)
(* 1e-6 guard.  The unit vector v/|v| and its dot product with the         *)
(* vertical are kept exactly (a numerator over the square root of an       *)
(* integer).  An angle is an integer number of micro-degrees (AngleRes     *)
(* units per degree), NaN being a value outside the angle range.           *)
(***************************************************************************)
EXTENDS Integers, Sequences, FiniteSets, TLC

VARIABLES
    NECK_ANGLE_THRESHOLD,   \* module global, posture_logic.py:12
    BACK_ANGLE_THRESHOLD,   \* module global, posture_logic.py:13
    vector,                 \* argument of _compute_angle_with_vertical
    angle,                  \* its return value
    angle_pc,               \* "start": vector chosen, "done": angle returned
    keypoints,              \* the caller's dict passed to classify_posture
    result,                 \* <<dict>> returned by the call, <<>> if none (yet)
    raised,                 \* "none", or the key of the KeyError the call raised
    call_pc,                \* "init", "called" (call in progress), "returned"
    memo,                   \* <<>> or <<an earlier call: its keypoints and outcome>>
    main_pc,                \* where main() is
    frame,                  \* main's frame: <<>> before the first read, else <<frame>>
    detected,               \* main's keypoints: <<>> for None, else <<dict>>
    posture_data,           \* main's posture_data: <<>> while unassigned, else <<dict>>
    overlay,                \* what has been drawn on the current frame
    frames_read,            \* number of frames read so far
    trace                   \* per frame, whether a pose was found and classify_posture called

globals == <<NECK_ANGLE_THRESHOLD, BACK_ANGLE_THRESHOLD>>
angleVars == <<vector, angle, angle_pc>>
callVars == <<keypoints, result, raised, call_pc, memo>>
mainVars == <<main_pc, frame, detected, posture_data, overlay, frames_read, trace>>
vars == <<globals, angleVars, callVars, mainVars>>

----------------------------------------------------------------------------
(* Bounds of the model *)

MaxV == 12
MaxScale == 4
MaxFrames == 3

----------------------------------------------------------------------------
(* Number representation *)

AngleRes == 1000 * 1000
TinyDen == 10 * 1000 * 1000
EpsInv == 1000 * 1000
NaN == 0 - 1
Deg(n) == n * AngleRes

Abs(n) == IF n < 0 THEN 0 - n ELSE n

RECURSIVE GCD(_, _)
GCD(a, b) == IF b = 0 THEN a ELSE GCD(b, a % b)

\* the integer square root of n < 2^31, by bisection of lo .. hi
RECURSIVE ISqrtIn(_, _, _)
ISqrtIn(n, lo, hi) ==
    IF lo >= hi
    THEN lo
    ELSE LET mid == (lo + hi + 1) \div 2
         IN  IF mid * mid <= n THEN ISqrtIn(n, mid, hi) ELSE ISqrtIn(n, lo, mid - 1)
ISqrt(n) == ISqrtIn(n, 0, 46340)

Vec(x, y, den) == [x |-> x, y |-> y, den |-> den]

\* a - b on arrays (numpy broadcasting of "-")
VecSub(a, b) ==
    IF a.den = b.den
    THEN Vec(a.x - b.x, a.y - b.y, a.den)
    ELSE Vec(a.x * b.den - b.x * a.den, a.y * b.den - b.y * a.den, a.den * b.den)

\* k * v for a positive integer k
VecScale(v, k) == Vec(k * v.x, k * v.y, v.den)

\* v mirrored about the vertical axis
VecMirror(v) == Vec(0 - v.x, v.y, v.den)

----------------------------------------------------------------------------
(* numpy *)

\* np.linalg.norm(vector) < 1e-6, i.e. (x^2 + y^2) * EpsInv^2 < den^2.
\* den is below EpsInv or a multiple of it.
NormBelowEps(v) ==
    LET n2 == v.x * v.x + v.y * v.y
    IN  IF v.den < EpsInv
        THEN n2 = 0
        ELSE n2 < (v.den \div EpsInv) * (v.den \div EpsInv)

\* vector / vector_magnitude: the unit vector (x, y) / sqrt(n2), exactly.
\* The zero vector divided by its magnitude 0.0 is (nan, nan): n2 = 0.
Normalize(v) ==
    LET g == GCD(Abs(v.x), Abs(v.y))
    IN  IF g = 0
        THEN [x |-> 0, y |-> 0, n2 |-> 0]
        ELSE LET px == v.x \div g
                 py == v.y \div g
             IN  [x |-> px, y |-> py, n2 |-> px * px + py * py]

\* variant: the reference axis pointing down the image
Vertical_down == [x |-> 0, y |-> 1]

\* the reference axis, np.array([0.0, -1.0])
Vertical == [x |-> 0, y |-> 0 - 1]

\* variant: the components of w taken in the wrong order
Dot_swapped(unit, w) == [num |-> unit.x * w.y + unit.y * w.x, sq |-> unit.n2]

\* np.dot(unit, w) for an integer vector w: num / sqrt(sq); 0/sqrt(0) is nan
Dot(unit, w) == [num |-> unit.x * w.x + unit.y * w.y, sq |-> unit.n2]

\* np.clip(d, -1.0, 1.0); nan stays nan
Clip(d) ==
    IF d.num * d.num > d.sq
    THEN (IF d.num > 0 THEN [num |-> 1, sq |-> 1] ELSE [num |-> 0 - 1, sq |-> 1])
    ELSE d

\* arctan(2^-i) in micro-degrees, i = 0 .. 27
AtanTable ==
    <<45000000, 26565051, 14036243, 7125016, 3576334, 1789911, 895174,
      447614, 223811, 111906, 55953, 27976, 13988, 6994, 3497, 1749, 874,
      437, 219, 109, 55, 27, 14, 7, 3, 2, 1, 0>>

RECURSIVE Cordic(_, _, _, _)
Cordic(X, Y, z, i) ==
    IF i >= Len(AtanTable)
    THEN z
    ELSE IF Y >= 0
         THEN Cordic(X + (Y \div (2 ^ i)), Y - (X \div (2 ^ i)), z + AtanTable[i + 1], i + 1)
         ELSE Cordic(X - (Y \div (2 ^ i)), Y + (X \div (2 ^ i)), z - AtanTable[i + 1], i + 1)

\* arctan(t / u) in micro-degrees for 0 <= t <= u, 0 < u
AtanDeg(t, u) ==
    IF t = 0
    THEN 0
    ELSE LET F == (2 ^ 29) \div u
         IN  Cordic(u * F, t * F, 0, 0)

\* np.degrees(np.arccos(d)) for d = num / sqrt(sq) in [-1, 1]:
\* arccos(c) = arctan2(sqrt(1 - c^2), c)
ArccosDegrees(d) ==
    IF d.sq = 0 \/ d.num * d.num > d.sq
    THEN NaN
    ELSE LET c == Abs(d.num)
             s == ISqrt(d.sq - d.num * d.num)
             acute == IF s <= c THEN AtanDeg(s, c) ELSE Deg(90) - AtanDeg(c, s)
         IN  IF d.num >= 0 THEN acute ELSE Deg(180) - acute

----------------------------------------------------------------------------
(* Python *)

\* a function call either raises or returns a value
Raise(key) == [raised |-> key, value |-> <<>>]
Return(v) == [raised |-> "none", value |-> <<v>>]

\* x <= y on floats: false when x is nan
LessEq(x, y) == x # NaN /\ x <= y

\* round(x, 1): the nearest tenth, an exact tie to the even tenth; nan stays nan
Tenth == AngleRes \div 10
round1(x) ==
    IF x = NaN
    THEN NaN
    ELSE LET q == x \div Tenth
             r == x % Tenth
         IN  IF 2 * r > Tenth \/ (2 * r = Tenth /\ q % 2 = 1)
             THEN (q + 1) * Tenth
             ELSE q * Tenth

\* np.array(point) for a tuple of pixel coordinates
np_array(point) == Vec(point[1], point[2], 1)

----------------------------------------------------------------------------
(* logic/posture_logic.py *)

\* variant: the sum of the two points, the division by 2.0 left out
_compute_midpoint_sum(point1, point2) ==
    Vec(point1[1] + point2[1], point1[2] + point2[2], 1)

_compute_midpoint(point1, point2) ==
    Vec(point1[1] + point2[1], point1[2] + point2[2], 2)

\* variant: no guard, the division by the magnitude always happens
_compute_angle_with_vertical_unguarded(v) ==
    ArccosDegrees(Clip(Dot(Normalize(v), Vertical)))

\* variant: the guard tests for a magnitude of exactly zero
_compute_angle_with_vertical_zero_only(v) ==
    IF v.x = 0 /\ v.y = 0
    THEN 0
    ELSE ArccosDegrees(Clip(Dot(Normalize(v), Vertical)))

_compute_angle_with_vertical(v) ==
    IF NormBelowEps(v)
    THEN 0
    ELSE ArccosDegrees(Clip(Dot(Normalize(v), Vertical)))

\* posture_logic.py lines 105-115, for a dict that has the three keys
neck_vector(kp) ==
    LET shoulder_midpoint == _compute_midpoint(kp["left_shoulder"], kp["right_shoulder"])
        nose == np_array(kp["nose"])
    IN  VecSub(nose, shoulder_midpoint)

\* variant: the back vector runs from the hip midpoint to the nose
back_vector_to_nose(kp) ==
    LET hip_midpoint == _compute_midpoint(kp["left_hip"], kp["right_hip"])
        nose == np_array(kp["nose"])
    IN  VecSub(nose, hip_midpoint)

\* posture_logic.py lines 145-158, for a dict that has the four keys
back_vector(kp) ==
    LET hip_midpoint == _compute_midpoint(kp["left_hip"], kp["right_hip"])
        shoulder_midpoint == _compute_midpoint(kp["left_shoulder"], kp["right_shoulder"])
    IN  VecSub(shoulder_midpoint, hip_midpoint)

\* keypoints[key] raises KeyError(key) when the dict has no such key
_compute_neck_angle(kp) ==
    IF "left_shoulder" \notin DOMAIN kp THEN Raise("left_shoulder")
    ELSE IF "right_shoulder" \notin DOMAIN kp THEN Raise("right_shoulder")
    ELSE IF "nose" \notin DOMAIN kp THEN Raise("nose")
    ELSE Return(_compute_angle_with_vertical(neck_vector(kp)))

\* variant: keypoints.get(key, (0, 0)) in place of keypoints[key]
GetOrDefault(kp, key) == IF key \in DOMAIN kp THEN kp[key] ELSE <<0, 0>>
_compute_back_angle_default(kp) ==
    LET hip_midpoint == _compute_midpoint(GetOrDefault(kp, "left_hip"), GetOrDefault(kp, "right_hip"))
        shoulder_midpoint ==
            _compute_midpoint(GetOrDefault(kp, "left_shoulder"), GetOrDefault(kp, "right_shoulder"))
    IN  Return(_compute_angle_with_vertical(VecSub(shoulder_midpoint, hip_midpoint)))

_compute_back_angle(kp) ==
    IF "left_hip" \notin DOMAIN kp THEN Raise("left_hip")
    ELSE IF "right_hip" \notin DOMAIN kp THEN Raise("right_hip")
    ELSE IF "left_shoulder" \notin DOMAIN kp THEN Raise("left_shoulder")
    ELSE IF "right_shoulder" \notin DOMAIN kp THEN Raise("right_shoulder")
    ELSE Return(_compute_angle_with_vertical(back_vector(kp)))

\* variant: one passing axis is enough
is_good_rule_either(neck_angle, back_angle) ==
    LET neck_ok == LessEq(neck_angle, NECK_ANGLE_THRESHOLD)
        back_ok == LessEq(back_angle, BACK_ANGLE_THRESHOLD)
    IN  neck_ok \/ back_ok

\* posture_logic.py lines 214-216
is_good_rule(neck_angle, back_angle) ==
    LET neck_ok == LessEq(neck_angle, NECK_ANGLE_THRESHOLD)
        back_ok == LessEq(back_angle, BACK_ANGLE_THRESHOLD)
    IN  neck_ok /\ back_ok

\* posture_logic.py lines 218-222
result_dict(neck_angle, back_angle, is_good) ==
    [neck_angle |-> round1(neck_angle),
     back_angle |-> round1(back_angle),
     is_good |-> is_good]

\* variant: the angles are rounded before they are compared
classify_posture_rounded(kp) ==
    LET neck == _compute_neck_angle(kp)
    IN  IF neck.raised # "none"
        THEN Raise(neck.raised)
        ELSE LET back == _compute_back_angle(kp)
             IN  IF back.raised # "none"
                 THEN Raise(back.raised)
                 ELSE LET neck_angle == round1(neck.value[1])
                          back_angle == round1(back.value[1])
                          is_good == is_good_rule(neck_angle, back_angle)
                      IN  Return(result_dict(neck_angle, back_angle, is_good))

classify_posture(kp) ==
    LET neck == _compute_neck_angle(kp)
    IN  IF neck.raised # "none"
        THEN Raise(neck.raised)
        ELSE LET back == _compute_back_angle(kp)
             IN  IF back.raised # "none"
                 THEN Raise(back.raised)
                 ELSE LET neck_angle == neck.value[1]
                          back_angle == back.value[1]
                          is_good == is_good_rule(neck_angle, back_angle)
                      IN  Return(result_dict(neck_angle, back_angle, is_good))

----------------------------------------------------------------------------
(* Initial values *)

InitGlobals ==
    /\ NECK_ANGLE_THRESHOLD = Deg(20)
    /\ BACK_ANGLE_THRESHOLD = Deg(15)

NoKeypoints == [n \in {} |-> <<0, 0>>]

IdleAngle ==
    /\ vector = Vec(0, 0, 1)
    /\ angle = 0
    /\ angle_pc = "idle"

IdleCalls ==
    /\ keypoints = NoKeypoints
    /\ result = <<>>
    /\ raised = "none"
    /\ call_pc = "init"
    /\ memo = <<>>

IdleMain ==
    /\ main_pc = "idle"
    /\ frame = <<>>
    /\ detected = <<>>
    /\ posture_data = <<>>
    /\ overlay = {}
    /\ frames_read = 0
    /\ trace = <<>>

----------------------------------------------------------------------------
(* Calls of classify_posture *)

Names == {"nose", "left_shoulder", "right_shoulder", "left_hip", "right_hip"}

KeypointSet(nose, ls, rs, lh, rh) ==
    [n \in Names |->
        CASE n = "nose" -> nose
          [] n = "left_shoulder" -> ls
          [] n = "right_shoulder" -> rs
          [] n = "left_hip" -> lh
          [] n = "right_hip" -> rh]

\* the dict without one key
Without(kp, key) == [n \in (DOMAIN kp) \ {key} |-> kp[n]]

\* tests/test_logic.py
fake_keypoints ==
    KeypointSet(<<450, 250>>, <<400, 300>>, <<500, 300>>, <<420, 450>>, <<480, 450>>)

\* the docstring example of classify_posture
example_keypoints ==
    KeypointSet(<<320, 100>>, <<280, 200>>, <<360, 200>>, <<290, 400>>, <<350, 400>>)

NosePoints == {<<30, 0>>, <<44, 0>>, <<17, 0>>, <<32, 32>>, <<30, 37>>, <<60, 32>>}
LeftShoulderPoints == {<<30, 37>>}
RightShoulderPoints == {<<30, 37>>, <<31, 37>>, <<30, 38>>}
HipPairs ==
    {<<<<30, 57>>, <<30, 57>>>>, <<<<30, 57>>, <<19, 58>>>>,
     <<<<30, 57>>, <<60, 57>>>>, <<<<30, 37>>, <<30, 37>>>>}

FullKeypointSets ==
    {KeypointSet(n, ls, rs, h[1], h[2]) :
        n \in NosePoints, ls \in LeftShoulderPoints, rs \in RightShoulderPoints, h \in HipPairs}
    \cup {fake_keypoints, example_keypoints}

PartialKeypointSets ==
    {Without(kp, key) : kp \in {fake_keypoints, example_keypoints}, key \in Names}
    \cup {Without(Without(fake_keypoints, "nose"), "left_hip"), NoKeypoints}

Inputs == FullKeypointSets \cup PartialKeypointSets

Init ==
    /\ InitGlobals
    /\ IdleAngle
    /\ IdleCalls
    /\ IdleMain

\* the caller builds a dict and calls classify_posture(keypoints)
Call ==
    /\ call_pc \in {"init", "returned"}
    /\ keypoints' \in Inputs
    /\ result' = <<>>
    /\ raised' = "none"
    /\ call_pc' = "called"
    /\ UNCHANGED <<globals, angleVars, memo, mainVars>>

\* variant: a call that returns a bad posture relaxes the neck threshold
Classify_adaptive ==
    /\ call_pc = "called"
    /\ LET out == classify_posture(keypoints)
       IN  /\ result' = out.value
           /\ raised' = out.raised
           /\ NECK_ANGLE_THRESHOLD' =
                 IF out.raised = "none" /\ ~out.value[1].is_good
                 THEN NECK_ANGLE_THRESHOLD + Deg(1)
                 ELSE NECK_ANGLE_THRESHOLD
    /\ call_pc' = "returned"
    /\ UNCHANGED <<BACK_ANGLE_THRESHOLD, angleVars, keypoints, memo, mainVars>>

\* the body of classify_posture, up to its return or its exception
Classify ==
    /\ call_pc = "called"
    /\ LET out == classify_posture(keypoints)
       IN  /\ result' = out.value
           /\ raised' = out.raised
    /\ call_pc' = "returned"
    /\ UNCHANGED <<globals, angleVars, keypoints, memo, mainVars>>

\* the caller keeps the outcome of a call to compare later calls with
Remember ==
    /\ call_pc = "returned"
    /\ memo' = <<[keypoints |-> keypoints, result |-> result, raised |-> raised]>>
    /\ UNCHANGED <<globals, angleVars, keypoints, result, raised, call_pc, mainVars>>

Next == Call \/ Classify \/ Remember

Spec == Init /\ [][Next]_vars

----------------------------------------------------------------------------
(* Calls of _compute_angle_with_vertical: on the vectors of a bounded grid,  *)
(* and on the two vectors classify_posture derives from a keypoint set      *)

Dens == {1, 2, TinyDen}
Vectors == {Vec(x, y, d) : x \in (0 - MaxV) .. MaxV, y \in (0 - MaxV) .. MaxV, d \in Dens}

InitAngle ==
    /\ InitGlobals
    /\ IdleCalls
    /\ IdleMain
    /\ vector \in Vectors
    /\ angle = 0
    /\ angle_pc = "start"

ComputeAngle ==
    /\ angle_pc = "start"
    /\ angle' = _compute_angle_with_vertical(vector)
    /\ angle_pc' = "done"
    /\ UNCHANGED <<globals, vector, callVars, mainVars>>

NextVector ==
    /\ angle_pc = "done"
    /\ vector' \in Vectors
    /\ keypoints' = NoKeypoints
    /\ angle' = 0
    /\ angle_pc' = "start"
    /\ UNCHANGED <<globals, result, raised, call_pc, memo, mainVars>>

\* _compute_neck_angle(keypoints) reaches its call of _compute_angle_with_vertical
NeckVector ==
    /\ angle_pc = "done"
    /\ keypoints' \in FullKeypointSets
    /\ vector' = neck_vector(keypoints')
    /\ angle' = 0
    /\ angle_pc' = "start"
    /\ UNCHANGED <<globals, result, raised, call_pc, memo, mainVars>>

\* _compute_back_angle(keypoints) reaches its call of _compute_angle_with_vertical
BackVector ==
    /\ angle_pc = "done"
    /\ keypoints' \in FullKeypointSets
    /\ vector' = back_vector(keypoints')
    /\ angle' = 0
    /\ angle_pc' = "start"
    /\ UNCHANGED <<globals, result, raised, call_pc, memo, mainVars>>

NextAngle == ComputeAngle \/ NextVector \/ NeckVector \/ BackVector

SpecAngle == InitAngle /\ [][NextAngle]_vars

----------------------------------------------------------------------------
(* pose/pose_detector.py *)

\* A frame is [width, height, pose].  pose is what MediaPipe's pose.process
\* finds in the frame: <<>> when results.pose_landmarks is None, else <<lm>>,
\* lm giving for each landmark its normalized x and y (in units of 1 / LmDen)
\* and its visibility (in percent).
LmDen == 10 * 10
LANDMARK_INDICES == Names

\* int(x) for x = a / b, b > 0: truncation towards zero
IntTrunc(a, b) == IF a >= 0 THEN a \div b ELSE 0 - ((0 - a) \div b)

\* frame is None or frame.size == 0
FrameIsEmpty(f) == f = <<>> \/ f[1].width * f[1].height = 0

\* variant: a landmark with visibility below 0.5 is skipped ("continue")
get_keypoints_visible_only(f) ==
    IF FrameIsEmpty(f)
    THEN <<>>
    ELSE LET frame_width == f[1].width
             frame_height == f[1].height
             pose_landmarks == f[1].pose
         IN  IF pose_landmarks = <<>>
             THEN <<>>
             ELSE << [name \in {n \in LANDMARK_INDICES : pose_landmarks[1][n].visibility >= 50} |->
                        LET landmark == pose_landmarks[1][name]
                        IN  <<IntTrunc(landmark.x * frame_width, LmDen),
                              IntTrunc(landmark.y * frame_height, LmDen)>>] >>

\* None is <<>>, a returned dict is <<dict>>
get_keypoints(f) ==
    IF FrameIsEmpty(f)
    THEN <<>>
    ELSE LET frame_width == f[1].width
             frame_height == f[1].height
             pose_landmarks == f[1].pose
         IN  IF pose_landmarks = <<>>
             THEN <<>>
             ELSE << [name \in LANDMARK_INDICES |->
                        LET landmark == pose_landmarks[1][name]
                        IN  <<IntTrunc(landmark.x * frame_width, LmDen),
                              IntTrunc(landmark.y * frame_height, LmDen)>>] >>

----------------------------------------------------------------------------
(* ui/visualizer.py *)

\* f"{x:.1f}"
format1(x) == round1(x)

\* the three texts draw_feedback puts on the frame
draw_feedback(data) ==
    {[text |-> IF data.is_good THEN "GOOD POSTURE" ELSE "BAD POSTURE", value |-> 0],
     [text |-> "Neck Angle", value |-> format1(data.neck_angle)],
     [text |-> "Back Angle", value |-> format1(data.back_angle)]}

----------------------------------------------------------------------------
(* main.py *)

Landmark(x, y, visibility) == [x |-> x, y |-> y, visibility |-> visibility]

Pose(nose, ls, rs, lh, rh) == KeypointSet(nose, ls, rs, lh, rh)

\* upright, every landmark visible
PoseUpright ==
    Pose(Landmark(50, 20, 99), Landmark(40, 40, 99), Landmark(60, 40, 99),
         Landmark(42, 80, 99), Landmark(58, 80, 99))
\* head forward of the shoulders
PoseForwardHead ==
    Pose(Landmark(70, 25, 99), Landmark(40, 40, 99), Landmark(60, 40, 99),
         Landmark(42, 80, 99), Landmark(58, 80, 99))
\* leaning, hips hidden behind a desk (visibility below 0.5) and below the frame
PoseHipsHidden ==
    Pose(Landmark(50, 20, 99), Landmark(40, 40, 90), Landmark(60, 40, 90),
         Landmark(10, 110, 20), Landmark(25, 112, 10))
\* partly outside the frame on the left
PoseOffFrame ==
    Pose(Landmark(0 - 5, 20, 60), Landmark(0 - 15, 40, 30), Landmark(5, 40, 70),
         Landmark(0 - 12, 80, 20), Landmark(4, 80, 60))

Poses == {PoseUpright, PoseForwardHead, PoseHipsHidden, PoseOffFrame}

CameraFrames ==
    {[width |-> 640, height |-> 480, pose |-> p] : p \in {<<>>} \cup {<<q>> : q \in Poses}}

\* cv2.flip(frame, 1): the image mirrored left to right
flip(f) ==
    IF f.pose = <<>>
    THEN f
    ELSE [f EXCEPT !.pose =
            << [n \in DOMAIN f.pose[1] |-> [f.pose[1][n] EXCEPT !.x = LmDen - f.pose[1][n].x]] >>]

InitMain ==
    /\ InitGlobals
    /\ IdleAngle
    /\ IdleCalls
    /\ main_pc = "start"
    /\ frame = <<>>
    /\ detected = <<>>
    /\ posture_data = <<>>
    /\ overlay = {}
    /\ frames_read = 0
    /\ trace = <<>>

\* lines 61-67: the webcam opens, or main returns
MainOpen ==
    /\ main_pc = "start"
    /\ \E opened \in BOOLEAN : main_pc' = IF opened THEN "loop" ELSE "exit"
    /\ UNCHANGED <<globals, angleVars, callVars, frame, detected, posture_data,
                   overlay, frames_read, trace>>

\* lines 76-86: the loop test, the read and the flip; the loop ends when the
\* capture is closed or the read fails
MainRead ==
    /\ main_pc = "loop"
    /\ \/ /\ frames_read < MaxFrames
          /\ \E f \in CameraFrames :
                /\ frame' = <<flip(f)>>
                /\ overlay' = {}
                /\ frames_read' = frames_read + 1
                /\ main_pc' = "detect"
          /\ UNCHANGED <<detected, posture_data, trace>>
       \/ /\ main_pc' = "cleanup"
          /\ UNCHANGED <<frame, detected, posture_data, overlay, frames_read, trace>>
    /\ UNCHANGED <<globals, angleVars, callVars>>

\* line 91
MainDetect ==
    /\ main_pc = "detect"
    /\ detected' = get_keypoints(frame)
    /\ main_pc' = "branch"
    /\ UNCHANGED <<globals, angleVars, callVars, frame, posture_data, overlay,
                   frames_read, trace>>

\* variant: no test for None; classify_posture(None) raises a TypeError
MainBranch_unguarded ==
    /\ main_pc = "branch"
    /\ IF detected = <<>>
       THEN /\ raised' = "TypeError"
            /\ main_pc' = "crashed"
            /\ trace' = Append(trace, [pose_found |-> FALSE, classify_called |-> TRUE])
            /\ UNCHANGED <<posture_data, overlay>>
       ELSE LET out == classify_posture(detected[1])
            IN  /\ raised' = out.raised
                /\ main_pc' = IF out.raised = "none" THEN "fps" ELSE "crashed"
                /\ posture_data' = IF out.raised = "none" THEN out.value ELSE posture_data
                /\ overlay' = IF out.raised = "none"
                              THEN draw_feedback(out.value[1])
                                   \cup {[text |-> "keypoints", value |-> 0]}
                              ELSE overlay
                /\ trace' = Append(trace, [pose_found |-> TRUE, classify_called |-> TRUE])
    /\ UNCHANGED <<globals, angleVars, keypoints, result, call_pc, memo, frame,
                   detected, frames_read>>

\* lines 96-115: classify and draw when a pose was detected, else the message;
\* an exception of classify_posture ends main
MainBranch ==
    /\ main_pc = "branch"
    /\ IF detected # <<>>
       THEN LET out == classify_posture(detected[1])
            IN  /\ raised' = out.raised
                /\ main_pc' = IF out.raised = "none" THEN "fps" ELSE "crashed"
                /\ posture_data' = IF out.raised = "none" THEN out.value ELSE posture_data
                /\ overlay' = IF out.raised = "none"
                              THEN draw_feedback(out.value[1])
                                   \cup {[text |-> "keypoints", value |-> 0]}
                              ELSE overlay
                /\ trace' = Append(trace, [pose_found |-> TRUE, classify_called |-> TRUE])
       ELSE /\ overlay' = {[text |-> "No pose detected - please stand in view", value |-> 0]}
            /\ main_pc' = "fps"
            /\ trace' = Append(trace, [pose_found |-> FALSE, classify_called |-> FALSE])
            /\ UNCHANGED <<posture_data, raised>>
    /\ UNCHANGED <<globals, angleVars, keypoints, result, call_pc, memo, frame,
                   detected, frames_read>>

\* lines 120-146: the FPS text, imshow and the quit key.  The two readings of
\* the clock differ (a frame takes time to read), so 1.0 / the difference is defined.
MainShow ==
    /\ main_pc = "fps"
    /\ overlay' = overlay \cup {[text |-> "FPS", value |-> 0]}
    /\ \E quit \in BOOLEAN : main_pc' = IF quit THEN "cleanup" ELSE "loop"
    /\ UNCHANGED <<globals, angleVars, callVars, frame, detected, posture_data,
                   frames_read, trace>>

\* lines 151-155
MainCleanup ==
    /\ main_pc = "cleanup"
    /\ main_pc' = "exit"
    /\ UNCHANGED <<globals, angleVars, callVars, frame, detected, posture_data,
                   overlay, frames_read, trace>>

NextMain == MainOpen \/ MainRead \/ MainDetect \/ MainBranch \/ MainShow \/ MainCleanup

SpecMain == InitMain /\ [][NextMain]_vars

----------------------------------------------------------------------------
(* Properties of classify_posture, under Spec *)

HasAllNames(kp) == Names \subseteq DOMAIN kp
Returned == call_pc = "returned"
RawNeck == _compute_neck_angle(keypoints).value[1]
RawBack == _compute_back_angle(keypoints).value[1]

C2_ComparesUnrounded ==
    (Returned /\ HasAllNames(keypoints)) =>
        /\ Len(result) = 1
        /\ result[1].neck_angle = round1(RawNeck)
        /\ result[1].back_angle = round1(RawBack)
        /\ (RawNeck > Deg(20) /\ round1(RawNeck) = Deg(20)) =>
               (~result[1].is_good /\ result[1].neck_angle = Deg(20))
        /\ (RawBack > Deg(15) /\ round1(RawBack) = Deg(15)) =>
               (~result[1].is_good /\ result[1].back_angle = Deg(15))

\* a call whose raw neck angle is above 20.0 and is reported as 20.0, the back
\* axis passing: is_good is false
C2_Witness ==
    /\ Returned /\ HasAllNames(keypoints)
    /\ RawNeck > Deg(20) /\ RawBack <= Deg(15)
    /\ result[1].neck_angle = Deg(20)
    /\ result[1].is_good = FALSE

\* C3: a call with a keypoint set lacking a required name raises (a KeyError
\* for a name that is missing) and returns nothing.
C3_MissingKeyRaises ==
    (Returned /\ ~HasAllNames(keypoints)) =>
        /\ raised \in Names \ DOMAIN keypoints
        /\ result = <<>>

\* a call with only right_hip missing (the last key looked up) has raised
C3_Witness ==
    /\ Returned
    /\ DOMAIN keypoints = Names \ {"right_hip"}
    /\ raised = "right_hip"
    /\ result = <<>>

\* C9: two calls with identical keypoints have identical outcomes whatever
\* calls came between, the thresholds stay 20.0 and 15.0, and a call leaves
\* the caller's keypoint set as it was.
C9_Stateless ==
    /\ [](/\ NECK_ANGLE_THRESHOLD = Deg(20)
          /\ BACK_ANGLE_THRESHOLD = Deg(15)
          /\ (Returned /\ memo # <<>> /\ memo[1].keypoints = keypoints) =>
                 (memo[1].result = result /\ memo[1].raised = raised))
    /\ [][call_pc = "called" => keypoints' = keypoints]_vars

\* a call has returned whose keypoints are those of a remembered earlier call
\* that returned a bad posture
C9_Witness ==
    /\ Returned /\ HasAllNames(keypoints)
    /\ memo # <<>> /\ memo[1].keypoints = keypoints
    /\ Len(memo[1].result) = 1 /\ memo[1].result[1].is_good = FALSE
    /\ result = memo[1].result

----------------------------------------------------------------------------
(* Properties of _compute_angle_with_vertical, under SpecAngle *)

AngleDone == angle_pc = "done"

\* the keypoint set mirrored about the vertical line x = w / 2
MirrorKeypoints(kp, w) == [n \in DOMAIN kp |-> <<w - kp[n][1], kp[n][2]>>]
MirrorWidths == {61, 640}

\* |v| < 1e-6, stated on the coordinates
ShorterThanEps(v) ==
    \/ v.x = 0 /\ v.y = 0
    \/ v.den = TinyDen /\ v.x * v.x + v.y * v.y < 100

InRange(a) == a # NaN /\ 0 <= a /\ a <= Deg(180)

\* C4: the angle of every vector, the zero vector included, is a number in
\* [0, 180]; so are both angles of the classify_posture result for a keypoint
\* set the vector was derived from.
C4_AngleInRange ==
    AngleDone =>
        /\ InRange(angle)
        /\ HasAllNames(keypoints) =>
               LET r == classify_posture(keypoints).value[1]
               IN  InRange(r.neck_angle) /\ InRange(r.back_angle)

\* the angle of the zero vector has been computed and is 0.0
C4_Witness == AngleDone /\ vector.x = 0 /\ vector.y = 0 /\ angle = 0

\* C5: a vector shorter than 1e-6 has angle exactly 0.0, which passes both
\* thresholds.
C5_DegenerateIsZero ==
    (AngleDone /\ ShorterThanEps(vector)) =>
        /\ angle = 0
        /\ LessEq(angle, NECK_ANGLE_THRESHOLD)
        /\ LessEq(angle, BACK_ANGLE_THRESHOLD)

\* the angle of a non-zero vector shorter than 1e-6 has been computed
C5_Witness ==
    /\ AngleDone /\ ShorterThanEps(vector)
    /\ vector.x # 0 /\ vector.y # 0
    /\ angle = 0

\* C6: scaling a vector by k > 0 leaves its angle unchanged.
C6_ScaleInvariance ==
    AngleDone =>
        \A k \in 1 .. MaxScale :
            _compute_angle_with_vertical(VecScale(vector, k)) = angle

\* C7: the angle of (-x, y) is the angle of (x, y); the result of
\* classify_posture for a keypoint set the vector was derived from is
\* unchanged when every keypoint is mirrored about a vertical line.
C7_MirrorSymmetry ==
    AngleDone =>
        /\ _compute_angle_with_vertical(VecMirror(vector)) = angle
        /\ HasAllNames(keypoints) =>
               \A w \in MirrorWidths :
                   classify_posture(MirrorKeypoints(keypoints, w)) = classify_posture(keypoints)

\* the angle of a neck or back vector that leans to one side has been
\* computed, and the mirrored keypoint set differs from the original
C7_Witness ==
    /\ AngleDone /\ HasAllNames(keypoints)
    /\ vector.x # 0 /\ vector.y < 0
    /\ angle \notin {0, Deg(90), Deg(180)}
    /\ \A w \in MirrorWidths : MirrorKeypoints(keypoints, w) # keypoints

\* C8: the angle is 0.0 for (0, -1), 180.0 for (0, 1) and 90.0 for (1, 0)
\* and (-1, 0).
C8_AxisValues ==
    AngleDone =>
        /\ vector = Vec(0, 0 - 1, 1) => angle = 0
        /\ vector = Vec(0, 1, 1) => angle = Deg(180)
        /\ vector = Vec(1, 0, 1) => angle = Deg(90)
        /\ vector = Vec(0 - 1, 0, 1) => angle = Deg(90)

\* the angle of (0, 1) has been computed and is 180.0
C8_Witness == AngleDone /\ vector = Vec(0, 1, 1) /\ angle = Deg(180)

----------------------------------------------------------------------------
(* Properties of the frame loop, under SpecMain *)

\* C10: classify_posture and draw_feedback run for a frame only when
\* get_keypoints returned a keypoint set for it; on a frame where it returned
\* None classify_posture is not called, posture_data is left alone and the
\* loop goes on to its FPS and display step.
C10_ClassifyOnlyWithKeypoints ==
    /\ [](\A i \in 1 .. Len(trace) : trace[i].classify_called => trace[i].pose_found)
    /\ [](main_pc = "fps" =>
             ((\E t \in overlay : t.text \in {"GOOD POSTURE", "BAD POSTURE"})
                 => detected # <<>>))
    /\ [][(main_pc = "branch" /\ detected = <<>>) =>
             /\ main_pc' = "fps"
             /\ posture_data' = posture_data
             /\ trace' = Append(trace, [pose_found |-> FALSE, classify_called |-> FALSE])]_vars

\* a frame without a pose was skipped and the next frame, with a pose, has
\* been classified
C10_Witness ==
    /\ Len(trace) = 2
    /\ ~trace[1].pose_found /\ ~trace[1].classify_called
    /\ trace[2].pose_found /\ trace[2].classify_called
    /\ main_pc = "fps"

----------------------------------------------------------------------------
(* Further properties of classify_posture, under Spec *)

\* two full keypoint sets that agree on every name of the set names
AgreeOn(kp1, kp2, names) == \A n \in names : kp1[n] = kp2[n]
BothFull == Returned /\ memo # <<>> /\ HasAllNames(keypoints) /\ HasAllNames(memo[1].keypoints)

\* C11: two keypoint sets that differ only in nose get the same back_angle,
\* and two that differ only in the hips get the same neck_angle: the neck
\* angle depends on nose and the shoulders only, the back angle on the
\* shoulders and the hips only.
C11_AnglesIndependent ==
    BothFull =>
        /\ AgreeOn(keypoints, memo[1].keypoints, Names \ {"nose"}) =>
               result[1].back_angle = memo[1].result[1].back_angle
        /\ AgreeOn(keypoints, memo[1].keypoints, Names \ {"left_hip", "right_hip"}) =>
               result[1].neck_angle = memo[1].result[1].neck_angle

\* two calls whose keypoint sets differ only in nose have returned different
\* neck angles and the same back angle, which is not zero
C11_Witness ==
    /\ BothFull
    /\ AgreeOn(keypoints, memo[1].keypoints, Names \ {"nose"})
    /\ keypoints["nose"] # memo[1].keypoints["nose"]
    /\ result[1].neck_angle # memo[1].result[1].neck_angle
    /\ result[1].back_angle = memo[1].result[1].back_angle
    /\ result[1].back_angle # 0

\* the nose is straight above the shoulder midpoint, which is straight above
\* the hip midpoint (midpoints compared through the doubled coordinates)
Aligned(kp) ==
    /\ 2 * kp["nose"][1] = kp["left_shoulder"][1] + kp["right_shoulder"][1]
    /\ 2 * kp["nose"][2] < kp["left_shoulder"][2] + kp["right_shoulder"][2]
    /\ kp["left_shoulder"][1] + kp["right_shoulder"][1] = kp["left_hip"][1] + kp["right_hip"][1]
    /\ kp["left_shoulder"][2] + kp["right_shoulder"][2] < kp["left_hip"][2] + kp["right_hip"][2]

----------------------------------------------------------------------------
(* Further properties of the frame loop, under SpecMain *)

\* C13: get_keypoints returns None or a dict with all five names, whatever
\* the visibility of the landmarks, so classify_posture never raises in the
\* frame loop.
C13_AllOrNothing ==
    /\ detected = <<>> \/ DOMAIN detected[1] = Names
    /\ (frame # <<>> /\ main_pc \in {"branch", "fps"}) =>
           (detected = <<>> <=> frame[1].pose = <<>>)
    /\ raised = "none"
    /\ main_pc # "crashed"

\* a frame whose pose has a landmark of visibility below 0.5 was detected
\* with all five names and classified
C13_Witness ==
    /\ main_pc = "fps"
    /\ frame # <<>> /\ frame[1].pose # <<>>
    /\ \E n \in Names : frame[1].pose[1][n].visibility < 50
    /\ detected # <<>> /\ DOMAIN detected[1] = Names
    /\ posture_data # <<>>
    /\ trace[Len(trace)].classify_called

====
